---- MODULE Spec2Model ----
(***************************************************************************)
(* Model of src/communication/scrollsguide.py: the lazily populated        *)
(* class-level scroll cache (Scroll._scrolls_db), its population by        *)
(* Scroll.__load_scrolls and name resolution by Scroll.get_by_name.        *)
(*                                                                         *)
(* Strings are sequences of one-character strings.  Coroutines run on one  *)
(* asyncio event loop: a coroutine runs without interruption between two   *)
(* awaits, so every action below is the code between two suspension        *)
(* points.                                                                 *)
(***************************************************************************)
EXTENDS Integers, Sequences, FiniteSets, TLC

\* ------------------------------------------------------------------ bounds
\* longest scroll name / query, in characters
MaxLen == 2
\* most records in one fetched document
MaxRecs == 2
\* number of get_by_name calls (each caller makes one call)
NumCallers == 2
\* longest scroll name in a document fetched while calls run concurrently
MaxFetchedLen == 1

\* ----------------------------------------------------------------- strings
Chars == {"a", "b", "A"}

\* all strings of length at most n
StrsUpTo(n) == UNION {[1..k -> Chars] : k \in 0..n}

\* str.lower() on one character
LowerChar(c) == IF c = "A" THEN "a" ELSE c

\* str.lower()
Lower(s) == [i \in 1..Len(s) |-> LowerChar(s[i])]

\* s[lo:hi] with Python's clamping of hi, 0-based half-open
Slice(s, lo, hi) == SubSeq(s, lo + 1, IF hi > Len(s) THEN Len(s) ELSE hi)

Max(S) == CHOOSE x \in S : \A y \in S : y <= x

Min(S) == CHOOSE x \in S : \A y \in S : x <= y

\* -------------------------------------------- difflib.SequenceMatcher
\* length of the common run of a and b that starts at offsets i, j and stays
\* inside a[..ahi], b[..bhi]
RECURSIVE RunLen(_, _, _, _, _, _)
RunLen(a, i, ahi, b, j, bhi) ==
    IF i < ahi /\ j < bhi /\ a[i + 1] = b[j + 1]
    THEN 1 + RunLen(a, i + 1, ahi, b, j + 1, bhi)
    ELSE 0

\* the one element of a singleton set
The(S) == CHOOSE x \in S : TRUE

\* block m is the better answer of find_longest_match than block u: longer,
\* or as long and earlier in a, or as long, at the same place in a and not
\* later in b
Preferred(m, u) ==
    \/ m[3] > u[3]
    \/ m[3] = u[3] /\ m[1] < u[1]
    \/ m[3] = u[3] /\ m[1] = u[1] /\ m[2] <= u[2]

\* SequenceMatcher.find_longest_match: the longest block, the one that starts
\* earliest in a, and of those the one that starts earliest in b; (alo, blo, 0)
\* when nothing matches
find_longest_match(a, alo, ahi, b, blo, bhi) ==
    LET blocks == {<<alo, blo, 0>>} \cup
                  {<<p[1], p[2], RunLen(a, p[1], ahi, b, p[2], bhi)>> :
                      p \in (alo..(ahi - 1)) \X (blo..(bhi - 1))}
    IN  CHOOSE m \in blocks : \A u \in blocks : Preferred(m, u)

\* SequenceMatcher.get_matching_blocks without the closing dummy block: the
\* longest match, then recursively the matches to its left and to its right
RECURSIVE matching_blocks(_, _, _, _, _, _)
matching_blocks(a, alo, ahi, b, blo, bhi) ==
    UNION {IF m[3] = 0
           THEN {}
           ELSE matching_blocks(a, alo, m[1], b, blo, m[2])
                \cup {m}
                \cup matching_blocks(a, m[1] + m[3], ahi, b, m[2] + m[3], bhi) :
           m \in {find_longest_match(a, alo, ahi, b, blo, bhi)}}

\* get_matching_blocks: the blocks and the dummy (len(a), len(b), 0)
get_matching_blocks(a, b) ==
    matching_blocks(a, 0, Len(a), b, 0, Len(b)) \cup {<<Len(a), Len(b), 0>>}

\* the sum of the sizes of the matching blocks (the matches of ratio())
RECURSIVE match_count(_, _, _, _, _, _)
match_count(a, alo, ahi, b, blo, bhi) ==
    The({IF m[3] = 0
         THEN 0
         ELSE match_count(a, alo, m[1], b, blo, m[2])
              + m[3]
              + match_count(a, m[1] + m[3], ahi, b, m[2] + m[3], bhi) :
         m \in {find_longest_match(a, alo, ahi, b, blo, bhi)}})

\* int(round(n / T)) for T > 0: to the nearest integer, a half to the even one
intr(n, T) ==
    IF 2 * (n % T) < T THEN n \div T
    ELSE IF 2 * (n % T) > T THEN (n \div T) + 1
    ELSE IF (n \div T) % 2 = 0 THEN n \div T ELSE (n \div T) + 1

\* utils.intr(100 * SequenceMatcher.ratio()): 100 * 2M / T, M the matches and
\* T the two lengths together; ratio() is 1.0 when T = 0
ratio100(a, b) ==
    IF Len(a) + Len(b) = 0 THEN 100
    ELSE The({intr(200 * M, Len(a) + Len(b)) :
                 M \in {match_count(a, 0, Len(a), b, 0, Len(b))}})

\* fuzz.partial_ratio (difflib backend): 100 for equal strings, 0 when one is
\* empty, else the best ratio of the shorter string against the windows of
\* the longer one that the matching blocks point at
partial_ratio(s1, s2) ==
    IF s1 = s2 THEN 100
    ELSE IF Len(s1) = 0 \/ Len(s2) = 0 THEN 0
    ELSE LET shorter == IF Len(s1) <= Len(s2) THEN s1 ELSE s2
             longer  == IF Len(s1) <= Len(s2) THEN s2 ELSE s1
         IN  Max({ratio100(shorter, Slice(longer, st, st + Len(shorter))) :
                     st \in {IF m[2] - m[1] > 0 THEN m[2] - m[1] ELSE 0 :
                                m \in get_matching_blocks(shorter, longer)}})


\* ------------------------------------------------------- fetched documents
\* names a record of the catalog may carry, n the longest
ScrollNames(n) == StrsUpTo(n) \ {<<>>}

\* one element of the document's 'data' list: a JSON object with every field
\* Scroll.__init__ reads (ok), or one that lacks a required field
ScrollData(n) ==
    [ok : {TRUE}, name : ScrollNames(n)] \cup {[ok |-> FALSE, name |-> <<>>]}

\* what the GET of line 112 can produce: the request or the read of the body
\* fails (ClientError), the body is no JSON (JSONDecodeError), the JSON value
\* is not an object (NotObject), or it is an object with a 'data' list
Responses(n) ==
    {[kind |-> k, data |-> <<>>] : k \in {"ClientError", "JSONDecodeError", "NotObject"}}
    \cup {[kind |-> "Object", data |-> d] :
            d \in UNION {[1..k -> ScrollData(n)] : k \in 0..MaxRecs}}

\* Scroll.__init__: the fields name resolution reads
Scroll(json_data) == [name |-> json_data.name]

\* ------------------------------------------------------------ Python dict
\* a dict is the sequence of its items in insertion order
DictKeys(d) == {d[i].key : i \in 1..Len(d)}

DictGet(d, k) == d[CHOOSE i \in 1..Len(d) : d[i].key = k].value

\* an assignment that leaves the value of an existing key alone
DictSet_keep_first(d, k, v) ==
    IF k \in DictKeys(d) THEN d ELSE Append(d, [key |-> k, value |-> v])

\* d[k] = v: an existing key keeps its place, a new key goes last
DictSet(d, k, v) ==
    IF k \in DictKeys(d)
    THEN [i \in 1..Len(d) |-> IF d[i].key = k THEN [key |-> k, value |-> v] ELSE d[i]]
    ELSE Append(d, [key |-> k, value |-> v])

\* ------------------------------------------------------------- the cache
\* Scroll._scrolls_db: None, or a dict from lowercase name to Scroll
None == [isNone |-> TRUE, dict |-> <<>>]

Populated(d) == [isNone |-> FALSE, dict |-> d]

\* the loop of lines 116-118 from item i on: stops at the first item whose
\* construction raises KeyError, with the dict as filled so far
RECURSIVE load_loop(_, _, _)
load_loop(d, data, i) ==
    IF i > Len(data) THEN [dict |-> d, raised |-> "none"]
    ELSE IF ~data[i].ok THEN [dict |-> d, raised |-> "KeyError"]
    ELSE load_loop(DictSet(d, Lower(Scroll(data[i]).name), Scroll(data[i])), data, i + 1)

\* a load that fills the dict it finds instead of a fresh one
load_scrolls_merge(resp, db) ==
    IF resp.kind \in {"ClientError", "JSONDecodeError"}
    THEN [db |-> db, raised |-> resp.kind]
    ELSE IF resp.kind = "NotObject"
    THEN [db |-> Populated(db.dict), raised |-> "AttributeError"]
    ELSE LET r == load_loop(db.dict, resp.data, 1)
         IN  [db |-> Populated(r.dict), raised |-> r.raised]

\* a load that drops the cache when the fetch fails
load_scrolls_reset(resp, db) ==
    IF resp.kind \in {"ClientError", "JSONDecodeError"}
    THEN [db |-> None, raised |-> resp.kind]
    ELSE IF resp.kind = "NotObject"
    THEN [db |-> Populated(<<>>), raised |-> "AttributeError"]
    ELSE LET r == load_loop(<<>>, resp.data, 1)
         IN  [db |-> Populated(r.dict), raised |-> r.raised]

\* Scroll.__load_scrolls from the arrival of the response to the end of the
\* loop (lines 113-118, no await in between): the cache it leaves and the
\* exception it raises ("none": returns)
load_scrolls(resp, db) ==
    IF resp.kind \in {"ClientError", "JSONDecodeError"}
    THEN [db |-> db, raised |-> resp.kind]
    ELSE IF resp.kind = "NotObject"
    THEN [db |-> Populated(<<>>), raised |-> "AttributeError"]
    ELSE LET r == load_loop(<<>>, resp.data, 1)
         IN  [db |-> Populated(r.dict), raised |-> r.raised]

\* ------------------------------------------------------------- outcomes
NoScroll == [name |-> <<>>]

Returned(scroll) ==
    [kind |-> "Scroll", scroll |-> scroll, scrolls |-> <<>>, search_term |-> <<>>]

\* an exception without payload
Raised(kind) ==
    [kind |-> kind, scroll |-> NoScroll, scrolls |-> <<>>, search_term |-> <<>>]

\* MultipleScrollsFound.__init__
MultipleScrollsFound(scrolls, search_term) ==
    [kind |-> "MultipleScrollsFound", scroll |-> NoScroll,
     scrolls |-> [i \in 1..Len(scrolls) |-> scrolls[i].name],
     search_term |-> search_term]

NoResult == Raised("pending")

\* sep.join(names): a text is the sequence of its pieces, a piece being one
\* character of an inserted value or one literal of the format string
RECURSIVE Join(_, _)
Join(names, sep) ==
    IF Len(names) = 0 THEN <<>>
    ELSE IF Len(names) = 1 THEN names[1]
    ELSE names[1] \o sep \o Join(Tail(names), sep)

\* the most names MultipleScrollsFound.__str__ lists
MaxListed == 5

\* a __str__ that lists fewer than MaxListed names only
MultipleScrollsFound_str_fewer(e) ==
    IF Len(e.scrolls) >= MaxListed
    THEN <<"Too many scrolls matches your query '">> \o e.search_term \o <<"'">>
    ELSE <<"Multiple scrolls match '">> \o e.search_term \o <<"'z: ">>
         \o Join(e.scrolls, <<", ">>)

\* MultipleScrollsFound.__str__
MultipleScrollsFound_str(e) ==
    IF Len(e.scrolls) > MaxListed
    THEN <<"Too many scrolls matches your query '">> \o e.search_term \o <<"'">>
    ELSE <<"Multiple scrolls match '">> \o e.search_term \o <<"'z: ">>
         \o Join(e.scrolls, <<", ">>)

\* ----------------------------------------------------------- thresholds
\* thresholds are kept in hundredths: 70 is 0.70 and 10000 is 100
DefaultThreshold == 70

Thresholds == {DefaultThreshold, 10000}

\* score >= threshold of line 135, the score an integer 0..100
ScoreAtLeast(score, threshold) == score * 100 >= threshold

\* lines 131-136: the items of the cache whose name scores at least the
\* threshold against the query, in the order of the cache; partial_ratio
\* returns an integer, which round(., 2) leaves as it is
name_scores(d, query, threshold) ==
    SelectSeq(d, LAMBDA e : ScoreAtLeast(partial_ratio(query, e.key), threshold))

\* a selection that keeps every candidate
closest_items_all(ns, query) == ns

\* lines 138-139 for a non-empty name_scores ns: the items of ns whose score
\* equals the highest score in ns
closest_items(ns, query) ==
    LET max_score == Max({partial_ratio(query, ns[i].key) : i \in 1..Len(ns)})
    IN  SelectSeq(ns, LAMBDA e : partial_ratio(query, e.key) = max_score)

\* lines 130-145, the fuzzy search; max() of line 138 raises ValueError when
\* name_scores is empty
fuzzy_search(d, query, threshold) ==
    LET ns == name_scores(d, query, threshold)
    IN  IF Len(ns) = 0
        THEN Raised("ValueError")
        ELSE LET closest == closest_items(ns, query)
             IN  IF Len(closest) = 1
                 THEN Returned(DictGet(d, closest[1].key))
                 ELSE IF Len(closest) > 1
                 THEN MultipleScrollsFound(
                          [i \in 1..Len(closest) |-> DictGet(d, closest[i].key)], query)
                 ELSE Raised("ScrollNotFound")

\* a lookup without the exact match of lines 127-128
lookup_no_exact_match(d, query, threshold) == fuzzy_search(d, query, threshold)

\* lines 127-145 of get_by_name, query already lowercased
lookup(d, query, threshold) ==
    IF query \in DictKeys(d)
    THEN Returned(DictGet(d, query))
    ELSE fuzzy_search(d, query, threshold)

\* --------------------------------------------------------------- state
Callers == 1..NumCallers

VARIABLES
    scrolls_db,   \* Scroll._scrolls_db
    pc,           \* where each caller's get_by_name coroutine is
    args,         \* the arguments of each caller's call
    result,       \* how each caller's call ended
    fetch_calls,  \* number of GET requests issued so far
    written_from, \* the response whose load last assigned _scrolls_db
    message       \* str() of the exception each caller's call raised, once taken

vars == <<scrolls_db, pc, args, result, fetch_calls, written_from, message>>

NoArgs == [query |-> <<>>, threshold |-> DefaultThreshold]

NoResponse == [kind |-> "none", data |-> <<>>]

NoMessage == <<>>

Init ==
    /\ scrolls_db = None
    /\ pc = [c \in Callers |-> "idle"]
    /\ args = [c \in Callers |-> NoArgs]
    /\ result = [c \in Callers |-> NoResult]
    /\ fetch_calls = 0
    /\ written_from = NoResponse
    /\ message = [c \in Callers |-> NoMessage]

\* a call on the populated cache that loads the catalog again
CallCached_refetch(c, q, t) ==
    /\ pc[c] = "idle"
    /\ ~scrolls_db.isNone
    /\ args' = [args EXCEPT ![c] = [query |-> q, threshold |-> t]]
    /\ pc' = [pc EXCEPT ![c] = "fetch"]
    /\ fetch_calls' = fetch_calls + 1
    /\ UNCHANGED <<scrolls_db, result, written_from, message>>

\* get_by_name called while the cache is populated: lines 123-145 run to the
\* end without an await
CallCached(c, q, t) ==
    /\ pc[c] = "idle"
    /\ ~scrolls_db.isNone
    /\ args' = [args EXCEPT ![c] = [query |-> q, threshold |-> t]]
    /\ result' = [result EXCEPT ![c] = lookup(scrolls_db.dict, Lower(q), t)]
    /\ pc' = [pc EXCEPT ![c] = "done"]
    /\ UNCHANGED <<scrolls_db, fetch_calls, written_from, message>>

\* get_by_name called while the cache is None: lines 123-126 and 111-112, up
\* to the await of the GET request
CallUninit(c, q, t) ==
    /\ pc[c] = "idle"
    /\ scrolls_db.isNone
    /\ args' = [args EXCEPT ![c] = [query |-> q, threshold |-> t]]
    /\ pc' = [pc EXCEPT ![c] = "fetch"]
    /\ fetch_calls' = fetch_calls + 1
    /\ UNCHANGED <<scrolls_db, result, written_from, message>>

\* the response arrives: lines 113-118; an exception ends the call, otherwise
\* the coroutine is suspended once more while session and response close
FetchDone(c, resp) ==
    /\ pc[c] = "fetch"
    /\ LET r == load_scrolls(resp, scrolls_db)
       IN  /\ scrolls_db' = r.db
           /\ written_from' = IF resp.kind \in {"ClientError", "JSONDecodeError"}
                              THEN written_from ELSE resp
           /\ IF r.raised = "none"
              THEN /\ pc' = [pc EXCEPT ![c] = "loaded"]
                   /\ UNCHANGED result
              ELSE /\ pc' = [pc EXCEPT ![c] = "done"]
                   /\ result' = [result EXCEPT ![c] = Raised(r.raised)]
    /\ UNCHANGED <<args, fetch_calls, message>>

\* __load_scrolls has returned: lines 127-145
Lookup(c) ==
    /\ pc[c] = "loaded"
    /\ result' = [result EXCEPT ![c] =
                     lookup(scrolls_db.dict, Lower(args[c].query), args[c].threshold)]
    /\ pc' = [pc EXCEPT ![c] = "done"]
    /\ UNCHANGED <<scrolls_db, args, fetch_calls, written_from, message>>

\* the queries callers pass
Queries == StrsUpTo(MaxLen)

Next ==
    \/ \E c \in Callers, q \in Queries, t \in Thresholds : CallCached(c, q, t)
    \/ \E c \in Callers, q \in Queries, t \in Thresholds : CallUninit(c, q, t)
    \/ \E c \in Callers, resp \in Responses(MaxFetchedLen) : FetchDone(c, resp)
    \/ \E c \in Callers : Lookup(c)

Spec == Init /\ [][Next]_vars

\* ------------------------------------------- resolution on a populated cache
\* the cache as an earlier load that ran to the end left it, no call running
InitResolve ==
    /\ \E resp \in Responses(MaxLen) :
          /\ load_scrolls(resp, None).raised = "none"
          /\ scrolls_db = load_scrolls(resp, None).db
          /\ written_from = resp
    /\ pc = [c \in Callers |-> "idle"]
    /\ args = [c \in Callers |-> NoArgs]
    /\ result = [c \in Callers |-> NoResult]
    /\ fetch_calls = 1
    /\ message = [c \in Callers |-> NoMessage]

NextResolve ==
    \E c \in Callers, q \in Queries, t \in Thresholds : CallCached(c, q, t)

SpecResolve == InitResolve /\ [][NextResolve]_vars

\* ------------------------------------------- the message of an ambiguity
\* the elements of a finite set in a fixed order
RECURSIVE SeqOf(_)
SeqOf(S) ==
    IF S = {} THEN <<>>
    ELSE <<CHOOSE x \in S : TRUE>> \o SeqOf(S \ {CHOOSE x \in S : TRUE})

\* most records of a catalog whose ambiguities are put into words
MaxTied == 6

\* the cache as a load left it that ran to the end on a catalog of up to
\* MaxTied records with different lowercase names, no call running
InitStr ==
    /\ \E K \in SUBSET {Lower(n) : n \in ScrollNames(MaxLen)} :
          /\ Cardinality(K) <= MaxTied
          /\ written_from = [kind |-> "Object",
                             data |-> [i \in 1..Cardinality(K) |->
                                          [ok |-> TRUE, name |-> SeqOf(K)[i]]]]
    /\ scrolls_db = load_scrolls(written_from, None).db
    /\ pc = [c \in Callers |-> "idle"]
    /\ args = [c \in Callers |-> NoArgs]
    /\ result = [c \in Callers |-> NoResult]
    /\ fetch_calls = 1
    /\ message = [c \in Callers |-> NoMessage]

\* the caller of a call that raised MultipleScrollsFound takes str() of it
Str(c) ==
    /\ pc[c] = "done"
    /\ result[c].kind = "MultipleScrollsFound"
    /\ message[c] = NoMessage
    /\ message' = [message EXCEPT ![c] = MultipleScrollsFound_str(result[c])]
    /\ UNCHANGED <<scrolls_db, pc, args, result, fetch_calls, written_from>>

\* with threshold 0 every name is a candidate, so the empty query, which scores
\* 0 against every name, ties all names of the cache
NextStr ==
    \/ \E c \in Callers, q \in Queries, t \in {0, DefaultThreshold} : CallCached(c, q, t)
    \/ \E c \in Callers : Str(c)

SpecStr == InitStr /\ [][NextStr]_vars

\* ------------------------------------------------------------ properties
\* the exceptions __load_scrolls lets through
LoadErrors == {"ClientError", "JSONDecodeError", "AttributeError", "KeyError"}

Keys == DictKeys(scrolls_db.dict)

Done(c) == pc[c] = "done"

\* the lowercased query of caller c
Query(c) == Lower(args[c].query)

\* no cached name is the query of caller c
Inexact(c) == Query(c) \notin Keys

\* the score of cached name k against the query of caller c
Score(c, k) == partial_ratio(Query(c), k)

\* the cached names whose score against the query of caller c passes the
\* comparison of line 135
Candidates(c) == {k \in Keys : Score(c, k) * 100 >= args[c].threshold}

\* the candidates no other candidate outscores
Top(c) ==
    LET cand == Candidates(c)
    IN  {k \in cand : \A j \in cand : Score(c, j) <= Score(c, k)}

\* the elements of a sequence
Range(f) == {f[i] : i \in DOMAIN f}

\* the dict that holds every record of the list data: one item for each
\* lowercase name, in the order of first appearance, its value the last
\* record of that name
FullCache(data) ==
    LET firsts == SelectSeq([i \in 1..Len(data) |-> i],
                      LAMBDA i : \A j \in 1..(i - 1) : Lower(data[j].name) # Lower(data[i].name))
        last(i) == Max({j \in 1..Len(data) : Lower(data[j].name) = Lower(data[i].name)})
    IN  [n \in 1..Len(firsts) |->
            [key |-> Lower(data[firsts[n]].name), value |-> [name |-> data[last(firsts[n])].name]]]

\* C1 (as claimed): at most one catalog fetch is in flight at any time, and as
\* long as no load has failed at most one fetch has been issued in total
C1_OneFetch ==
    /\ Cardinality({c \in Callers : pc[c] = "fetch"}) <= 1
    /\ (\A c \in Callers : result[c].kind \notin LoadErrors) => fetch_calls <= 1

\* C2 (as claimed): when the only fetch issued so far has ended in a failure
\* of the load, the cache is uninitialized (so the next call fetches again)
C2_FailureLeavesUninitialized ==
    \A c \in Callers :
        (Done(c) /\ result[c].kind \in LoadErrors /\ fetch_calls = 1)
            => scrolls_db.isNone

\* C3 (as claimed): a call on a populated cache whose query is no cached name
\* and for which no cached name passes the threshold ends with ScrollNotFound
C3_NotFound ==
    \A c \in Callers :
        (Done(c) /\ Inexact(c) /\ Candidates(c) = {})
            => result[c].kind = "ScrollNotFound"

\* C4: a call on a populated cache whose lowercased query is a cached name
\* returns the record stored under that name, whatever the threshold and
\* whatever the other names score
C4_ExactMatchWins ==
    \A c \in Callers :
        (Done(c) /\ ~Inexact(c))
            => result[c] = Returned(DictGet(scrolls_db.dict, Query(c)))

\* C4 witness: an exact match returned at threshold 100 although another
\* cached name scores 100 against the query, the query given in upper case
C4_Witness ==
    \E c \in Callers :
        /\ Done(c) /\ ~Inexact(c)
        /\ args[c].threshold = 10000
        /\ args[c].query # Query(c)
        /\ \E k \in Keys \ {Query(c)} : Score(c, k) = 100
        /\ result[c].kind = "Scroll"

\* C5 (as claimed): with the default threshold a name that scores below 70
\* is neither returned nor listed as a tied name
C5_DefaultThresholdIs70 ==
    \A c \in Callers :
        (Done(c) /\ Inexact(c) /\ args[c].threshold = DefaultThreshold)
            => /\ result[c].kind = "Scroll"
                    => Score(c, Lower(result[c].scroll.name)) >= 70
               /\ result[c].kind = "MultipleScrollsFound"
                    => \A n \in Range(result[c].scrolls) :
                           Score(c, Lower(n)) >= 70

C7_AtomicPopulation ==
    \/ scrolls_db.isNone
    \/ /\ written_from.kind = "Object"
       /\ \A i \in 1..Len(written_from.data) : written_from.data[i].ok
       /\ Keys = {Lower(written_from.data[i].name) : i \in 1..Len(written_from.data)}

\* C8: when no load has failed, a call that started on the uninitialized cache
\* ends as a single call with its query and threshold ends on the cache that
\* holds every record of the document loaded last
C8_ConcurrentCallsAgree ==
    [][\A c \in Callers :
          (/\ pc[c] = "loaded" /\ pc'[c] = "done"
           /\ \A o \in Callers : result[o].kind \notin LoadErrors)
             => result'[c] = lookup(FullCache(written_from.data), Query(c), args[c].threshold)]_vars

\* C8 witness: two calls started on the uninitialized cache, both fetches
\* succeeded, and both calls ended, one with a record and one with
\* MultipleScrollsFound
C8_Witness ==
    /\ fetch_calls = 2
    /\ \A c \in Callers : Done(c) /\ result[c].kind \notin LoadErrors
    /\ \E c \in Callers : result[c].kind = "Scroll" /\ Inexact(c)
    /\ \E c \in Callers : result[c].kind = "MultipleScrollsFound"

\* C9 (as claimed): a call that has ended has returned a record or raised
\* ScrollNotFound, MultipleScrollsFound or an error of the fetch
C9_FourOutcomes ==
    \A c \in Callers :
        Done(c) => result[c].kind \in
                      {"Scroll", "ScrollNotFound", "MultipleScrollsFound"} \cup LoadErrors

\* C10: no step takes the cache from populated back to None
C10_NeverUninitializedAgain ==
    [][~scrolls_db.isNone => ~scrolls_db'.isNone]_vars

\* C10 witness: two loads have run, one to the end and one that failed on a
\* record, so one of them ran on the populated cache, and the cache is
\* populated
C10_Witness ==
    /\ fetch_calls = 2
    /\ ~scrolls_db.isNone
    /\ \E c \in Callers : Done(c) /\ result[c].kind = "KeyError"
    /\ \E c \in Callers : Done(c) /\ result[c].kind \notin LoadErrors

\* the document that last assigned the cache was loaded to the end
LoadedToTheEnd ==
    /\ ~scrolls_db.isNone
    /\ written_from.kind = "Object"
    /\ \A i \in 1..Len(written_from.data) : written_from.data[i].ok

\* C11 (as claimed): once a load has populated the cache to the end, no step
\* changes the contents of the cache
C11_WrittenOnce ==
    [][LoadedToTheEnd => scrolls_db' = scrolls_db]_vars

\* C12: a call that starts on the populated cache ends in the same step,
\* issues no fetch and leaves the cache as it is
C12_CachedCallOnlyReads ==
    [][\A c \in Callers :
          (pc[c] = "idle" /\ pc'[c] # "idle" /\ ~scrolls_db.isNone)
             => /\ pc'[c] = "done"
                /\ fetch_calls' = fetch_calls
                /\ scrolls_db' = scrolls_db]_vars

\* C12 witness: one fetch was issued, its load ran to the end, and both calls
\* have ended without an error of the load, so one of them started on the
\* populated cache
C12_Witness ==
    /\ fetch_calls = 1
    /\ LoadedToTheEnd
    /\ \A c \in Callers : Done(c) /\ result[c].kind \notin LoadErrors

\* C13 (as claimed): MultipleScrollsFound carries the query as the caller
\* passed it and the names of the tied records
C13_OriginalQuery ==
    \A c \in Callers :
        (Done(c) /\ result[c].kind = "MultipleScrollsFound")
            => /\ result[c].search_term = args[c].query
               /\ Range(result[c].scrolls)
                    = {DictGet(scrolls_db.dict, k).name : k \in Top(c)}

\* C16: after a load that ran to the end every key of the cache is the
\* lowercase name of the record under it, each lowercase name of the document
\* has exactly one item, and its record is the last one of that name in the
\* document
C16_LastWriteWins ==
    LoadedToTheEnd =>
        LET data == written_from.data
            d    == scrolls_db.dict
        IN  /\ \A i \in 1..Len(d) : d[i].key = Lower(d[i].value.name)
            /\ \A i, j \in 1..Len(d) : d[i].key = d[j].key => i = j
            /\ Keys = {Lower(data[i].name) : i \in 1..Len(data)}
            /\ \A i \in 1..Len(data) :
                  (\A j \in (i + 1)..Len(data) : Lower(data[j].name) # Lower(data[i].name))
                     => DictGet(d, Lower(data[i].name)).name = data[i].name

\* C16 witness: the cache was loaded to the end from a document with two
\* records whose names differ only in case, and holds one item
C16_Witness ==
    /\ LoadedToTheEnd
    /\ Len(written_from.data) = 2
    /\ written_from.data[1].name # written_from.data[2].name
    /\ Lower(written_from.data[1].name) = Lower(written_from.data[2].name)
    /\ Len(scrolls_db.dict) = 1

\* where name i starts in the text of the names 1..n joined by one-piece
\* separators
RECURSIVE StartOf(_, _)
StartOf(names, i) ==
    IF i = 1 THEN 1 ELSE StartOf(names, i - 1) + Len(names[i - 1]) + 1

\* C14: the message of MultipleScrollsFound lists the tied names exactly when
\* there are at most 5: with 6 or more it says that there are too many and
\* holds nothing but that and the search term, with 5 or fewer it holds every
\* tied name, in order, separated by commas
C14_MessageListsUpToFive ==
    \A c \in Callers :
        message[c] # NoMessage =>
            LET names == result[c].scrolls
                term  == result[c].search_term
                msg   == message[c]
                list  == SubSeq(msg, Len(term) + 3, Len(msg))
            IN  /\ Len(names) >= 6
                     => msg = <<"Too many scrolls matches your query '">> \o term \o <<"'">>
                /\ Len(names) <= 5
                     => /\ msg[1] = "Multiple scrolls match '"
                        /\ SubSeq(msg, 2, Len(term) + 1) = term
                        /\ \A i \in 1..Len(names) :
                              /\ SubSeq(list, StartOf(names, i),
                                        StartOf(names, i) + Len(names[i]) - 1) = names[i]
                              /\ i < Len(names)
                                   => list[StartOf(names, i) + Len(names[i])] = ", "
                        /\ Len(list) = StartOf(names, Len(names)) + Len(names[Len(names)]) - 1

\* C14 witness: the message of an ambiguity of 6 names has been taken
C14_Witness ==
    \E c \in Callers :
        /\ Len(result[c].scrolls) = 6
        /\ message[c] = <<"Too many scrolls matches your query '">>
                           \o result[c].search_term \o <<"'">>

====
